---- MODULE Spec2Model ----
(***************************************************************************)
(* Milhouse run supervisor (ui/server.ts, createServerContext) with its    *)
(* log broadcaster and session registry, as a state machine.               *)
(*                                                                         *)
(* Text is modelled as a sequence of atoms (short strings): a log line is  *)
(* a sequence of atoms, a chunk of child output is a sequence of atoms and *)
(* newlines.                                                               *)
(***************************************************************************)
EXTENDS Naturals, Sequences, FiniteSets, TLC

VARIABLES
    child,          \* let child: the id of the active child process, or NoChild
    currentSession, \* let currentSession: SessionRecord | null
    logBuffer,      \* let logBuffer: string[]
    clients,        \* const clients: Client[]; of each: what res was written
                    \* (received), how much of it was the replay (replayed) and
                    \* how much was written before the last buffer reset (earlier)
    sessionsFile,   \* the document sessions.json on disk
    dirs,           \* the directories that exist on disk
    signalled,      \* TRUE when child.kill() has sent SIGTERM to the running child
    spawned,        \* number of child processes spawned so far
    stdoutPipe,     \* text the child wrote to stdout that is not yet delivered
    stderrPipe,     \* text the child wrote to stderr that is not yet delivered
    writes,         \* number of pieces of output the children produced so far
    uuids,          \* number of session ids drawn from randomUUID()
    conns,          \* number of client ids drawn from randomUUID()
    clock,          \* the wall clock read by new Date()
    response,       \* what the last POST /api/start answered
    up,             \* FALSE once an uncaught exception has ended the process
    \* the loop runner (loop-runner.ts, main), the process the supervisor spawns
    pc,             \* where main is: "idle", "planTurn", "buildTurn", "exited"
    maxIterations,  \* args.maxIterations
    iter,           \* let iter
    planArtifact,   \* the content of IMPLEMENTATION_PLAN.md, or NoFile
    threadFile,     \* the content of the file thread_id, or NoThreadFile
    turns,          \* the calls of runTurn so far: kind and threadId given
    inFlight,       \* number of calls of runTurn that have not returned
    planOutWrites,  \* number of times plan_out.log was written
    buildOutWrites, \* number of times build_out.log was written
    exitCode,       \* the exit code of the process, or NoCode while it runs
    \* the derivation of state directories, over two supervisor lifetimes
    envs,           \* of each lifetime: what MILHOUSE_STATE_DIR is set to
    resolved,       \* of each lifetime: the resolved workdir of a start
    derived,        \* of each lifetime: the stateDir computed for it, or NoDir
    \* the rendering of a prompt
    template,       \* the text of the template file
    goal,           \* the text given as --goal
    rendered        \* the text written to the rendered prompt file, or NoFile

loopVars == <<pc, maxIterations, iter, planArtifact, threadFile, turns,
              inFlight, planOutWrites, buildOutWrites, exitCode>>

pathVars == <<envs, resolved, derived>>

promptVars == <<template, goal, rendered>>

vars == <<child, currentSession, logBuffer, clients, sessionsFile, dirs,
          signalled, spawned, stdoutPipe, stderrPipe, writes, uuids, conns,
          clock, response, up, loopVars, pathVars, promptVars>>

----------------------------------------------------------------------------
(* Bounds of the model *)

\* session ids drawn (starts that got as far as creating a record)
MaxRuns == 2
\* pieces of output (lines written, or chunks delivered) of all children
MaxWrites == 2
\* connections opened on /api/events
MaxClients == 1
\* the largest iteration budget (--max-iterations) tried
MaxBudget == 2
\* build turns of one run of the loop runner
MaxTurns == 3
\* code units of a resolved workdir
MaxPathLen == 3
\* characters of a template and of a goal
MaxTextLen == 3

----------------------------------------------------------------------------
(* Values *)

NoChild == 0
NoSession == [id |-> 0]
NoTime == 0
NoThread == <<>>
\* a file that does not exist (readTextIfExists returns null)
NoFile == <<"no file">>
\* the file thread_id does not exist
NoThreadFile == "no file"
\* thread.id is null, threadId: undefined
NoHandle == "null"
\* the process has not exited
NoCode == "none"
NL == "\n"

defaultWorkdir == "/p"
\* the workdir a start request names; it does not exist when the server starts
WorkdirInputs == {"/q"}

\* the text "thread: t": the announcement prefix and the first character of
\* the handle
ThreadTag == "thread: t"

Streams == {"stdout", "stderr"}

\* the k-th piece of output carries a mark that tells when it was produced
\* and on which stream: "k" on stdout, "ek" on stderr
Mark(stream, k) ==
    IF stream = "stdout"
    THEN CASE k = 1 -> "1" [] k = 2 -> "2" [] k = 3 -> "3" [] k = 4 -> "4"
           [] k = 5 -> "5" [] OTHER -> "6"
    ELSE CASE k = 1 -> "e1" [] k = 2 -> "e2" [] k = 3 -> "e3" [] k = 4 -> "e4"
           [] k = 5 -> "e5" [] OTHER -> "e6"

Marks(stream) == {Mark(stream, k) : k \in 1..6}

\* the atoms made only of characters of the class [0-9a-zA-Z-]
HandleChars == {"t"} \cup Marks("stdout") \cup Marks("stderr")

\* the k-th line a child writes (the loop runner's output is free text): the
\* announcement "thread: t<mark>" of the handle "t<mark>"
ChildLine(stream, k) == <<ThreadTag, Mark(stream, k)>>

\* the chunks a data event may carry as the k-th piece of output: a whole
\* line, the head of a line cut after "thread: t", the rest of a line
Chunks(stream, k) ==
    { ChildLine(stream, k) \o <<NL>>, <<ThreadTag>>, <<Mark(stream, k), NL>> }

\* (code, signal) pairs of a child's exit event; one of the two is null
ExitInfos == { [code |-> "0", signal |-> "null"],
               [code |-> "1", signal |-> "null"],
               [code |-> "null", signal |-> "SIGTERM"],
               [code |-> "null", signal |-> "SIGKILL"] }

\* a record left in sessions.json by an earlier server lifetime
OldRecord == [id |-> 100, workdir |-> defaultWorkdir,
              stateDir |-> <<"/state", "/", "L3A">>,
              startedAt |-> 1, endedAt |-> 2, status |-> "succeeded",
              threadId |-> <<"t">>]

----------------------------------------------------------------------------
(* Log broadcaster *)

\* const payload = `data: ${line}\n\n`
Payload(line) == <<"data: ">> \o line \o <<"\n\n">>

\* logBuffer.push(line) for each of lines, in order
Pushed(buf, lines) == buf \o lines

\* a broadcast that writes to the first client only
WrittenToFirst(cl, lines) ==
    [i \in DOMAIN cl |->
        IF i = 1
        THEN [cl[i] EXCEPT !.received =
                 @ \o [k \in 1..Len(lines) |-> Payload(lines[k])]]
        ELSE cl[i]]

\* clients.forEach((c) => c.res.write(payload)) for each of lines, in order
Written(cl, lines) ==
    [i \in DOMAIN cl |->
        [cl[i] EXCEPT !.received =
            @ \o [k \in 1..Len(lines) |-> Payload(lines[k])]]]

\* a connection that is sent nothing of the buffer
NoReplay(buf) == <<>>

\* logBuffer.forEach((line) => res.write(`data: ${line}\n\n`))
Replay(buf) == [k \in 1..Len(buf) |-> Payload(buf[k])]

----------------------------------------------------------------------------
(* Session registry *)

AbsentFile == [kind |-> "absent", recs |-> <<>>]
ListFile(recs) == [kind |-> "list", recs |-> recs]
\* a document JSON.parse rejects
CorruptFile == [kind |-> "corrupt", recs |-> <<>>]
\* a document that parses to a value that is no array, such as {} or null
NonListFile == [kind |-> "nonlist", recs |-> <<>>]

\* the sessions saveSessions works on: [] when the file is absent or unparsable
ReadSessions(file) == IF file.kind = "list" THEN file.recs ELSE <<>>

\* sessions.map is not a function: the parsed document is no array
MapThrows(file) == file.kind = "nonlist"

\* [...sessions, rec] throws "sessions is not iterable" on a parsed document
\* such as {} or null
SpreadThrows(file) == file.kind = "nonlist"

\* GET /api/sessions answers the parsed document, [] when the file is absent
\* or unparsable
listSessions(file) ==
    IF file.kind \in {"list", "nonlist"} THEN file ELSE ListFile(<<>>)

\* an append that leaves the registry as it is
AppendNothing(sessions, rec) == sessions

\* an append that puts the new record first
PrependRecord(sessions, rec) == <<rec>> \o sessions

\* (sessions) => [...sessions, currentSession!]
AppendRecord(sessions, rec) == Append(sessions, rec)

\* an update that does not compare ids
UpdateEveryRecord(sessions, rec) == [i \in DOMAIN sessions |-> rec]

\* sessions.map((s) => (s.id === currentSession!.id ? currentSession! : s))
UpdateRecord(sessions, rec) ==
    [i \in DOMAIN sessions |->
        IF sessions[i].id = rec.id THEN rec ELSE sessions[i]]

----------------------------------------------------------------------------
(* Child output handling *)

RECURSIVE SplitAcc(_, _, _)
SplitAcc(s, cur, acc) ==
    IF s = <<>>
    THEN IF cur = <<>> THEN acc ELSE Append(acc, cur)
    ELSE IF Head(s) = NL
         THEN SplitAcc(Tail(s), <<>>, IF cur = <<>> THEN acc ELSE Append(acc, cur))
         ELSE SplitAcc(Tail(s), Append(cur, Head(s)), acc)

\* data.toString().split(/\r?\n/).filter(Boolean)
SplitLines(chunk) == SplitAcc(chunk, <<>>, <<>>)

RECURSIVE HandleRun(_)
HandleRun(s) ==
    IF s = <<>> \/ Head(s) \notin HandleChars
    THEN <<>>
    ELSE <<Head(s)>> \o HandleRun(Tail(s))

\* l.match(/thread:\s*([0-9a-zA-Z-]+)/): the captured handle, <<>> if no match
RECURSIVE threadMatch(_)
threadMatch(l) ==
    IF l = <<>> THEN <<>>
    ELSE IF Head(l) = ThreadTag
         THEN <<"t">> \o HandleRun(Tail(l))
         ELSE threadMatch(Tail(l))

\* threadId after the lines of one chunk were handled, in order
RECURSIVE ThreadAfter(_, _)
ThreadAfter(tid, lines) ==
    IF lines = <<>> THEN tid
    ELSE ThreadAfter(IF threadMatch(Head(lines)) # <<>>
                     THEN threadMatch(Head(lines)) ELSE tid,
                     Tail(lines))

\* a stderr line published without its tag
StderrLineUntagged(l) == l

\* `[stderr] ${l}`
StderrLine(l) == <<"[stderr] ">> \o l

\* `[exit] code=${code ?? "null"} signal=${signal ?? "null"}`
ExitLine(info) == <<"[exit] code=", info.code, " signal=", info.signal>>

\* a status computed without looking at the signal
ExitStatusNoSignal(info) ==
    IF info.code = "0" THEN "succeeded" ELSE "failed"

\* code === 0 ? "succeeded" : signal === "SIGTERM" ? "stopped" : "failed"
ExitStatus(info) ==
    IF info.code = "0" THEN "succeeded"
    ELSE IF info.signal = "SIGTERM" THEN "stopped" ELSE "failed"

----------------------------------------------------------------------------
(* Supervisor *)

\* normalizeWorkdir: an empty input is the default, an absolute one is kept
normalizeWorkdir(input) == IF input = "" THEN defaultWorkdir ELSE input

\* a start that takes every workdir as present
WorkdirNeverMissing(workdir, createIfMissing) == FALSE

\* !fs.existsSync(workdir) with createIfMissing false: throw "Workdir not found"
WorkdirMissing(workdir, createIfMissing) ==
    workdir \notin dirs /\ ~createIfMissing

\* a start that does not look at child
NeverRunning == FALSE

\* if (child) throw new Error("A run is already in progress")
AlreadyRunning == child # NoChild

stateBaseDir == "/state"

\* Buffer.from(workdir).toString("base64url") on the model's workdirs
Base64Url(workdir) ==
    CASE workdir = "/p" -> "L3A"
      [] workdir = "/q" -> "L3E"

\* path.join(stateBaseDir, Buffer.from(workdir).toString("base64url"))
StateDirOf(workdir) == <<stateBaseDir, "/", Base64Url(workdir)>>

\* strings as sequences of UTF-16 code units: "/" is 47, "p" 112, "e-acute"
\* 233, the euro sign 8364; 55296 is a high and 56320 a low surrogate, which
\* together encode U+10000 and are unpaired otherwise
SlashP == <<47, 112>>
NoDir == <<"none">>
IsHigh(u) == u >= 55296 /\ u <= 56319
IsLow(u) == u >= 56320 /\ u <= 57343

\* Buffer.from(string): the UTF-8 bytes; a surrogate pair gives the four bytes
\* of its code point, an unpaired surrogate those of U+FFFD (239, 191, 189)
RECURSIVE Utf8(_)
Utf8(units) ==
    IF units = <<>> THEN <<>>
    ELSE LET u == Head(units)
         IN IF u < 128 THEN <<u>> \o Utf8(Tail(units))
            ELSE IF u < 2048
            THEN <<192 + (u \div 64), 128 + (u % 64)>> \o Utf8(Tail(units))
            ELSE IF IsHigh(u) /\ Len(units) > 1 /\ IsLow(units[2])
            THEN LET cp == 65536 + ((u - 55296) * 1024) + (units[2] - 56320)
                 IN <<240 + (cp \div 262144), 128 + ((cp \div 4096) % 64),
                      128 + ((cp \div 64) % 64), 128 + (cp % 64)>>
                    \o Utf8(Tail(Tail(units)))
            ELSE IF IsHigh(u) \/ IsLow(u)
            THEN <<239, 191, 189>> \o Utf8(Tail(units))
            ELSE <<224 + (u \div 4096), 128 + ((u \div 64) % 64), 128 + (u % 64)>>
                   \o Utf8(Tail(units))

\* the base64url alphabet
B64 ==
    << "A", "B", "C", "D", "E", "F", "G", "H", "I", "J", "K", "L", "M", "N", "O",
       "P", "Q", "R", "S", "T", "U", "V", "W", "X", "Y", "Z", "a", "b", "c", "d",
       "e", "f", "g", "h", "i", "j", "k", "l", "m", "n", "o", "p", "q", "r", "s",
       "t", "u", "v", "w", "x", "y", "z", "0", "1", "2", "3", "4", "5", "6", "7",
       "8", "9", "-", "_" >>

\* an encoding that keeps only the first sextet of every byte triple
RECURSIVE ToBase64UrlLossy(_)
ToBase64UrlLossy(bytes) ==
    IF bytes = <<>> THEN <<>>
    ELSE <<B64[(bytes[1] \div 4) + 1]>>
           \o ToBase64UrlLossy(SubSeq(bytes, 4, Len(bytes)))

\* buffer.toString("base64url"): three bytes give four characters, a rest of
\* one or two bytes gives two or three, without padding
RECURSIVE ToBase64Url(_)
ToBase64Url(bytes) ==
    IF bytes = <<>> THEN <<>>
    ELSE LET a == bytes[1]
             s1 == B64[(a \div 4) + 1]
         IN IF Len(bytes) = 1
            THEN <<s1, B64[((a % 4) * 16) + 1]>>
            ELSE LET b == bytes[2]
                     s2 == B64[((a % 4) * 16) + (b \div 16) + 1]
                 IN IF Len(bytes) = 2
                    THEN <<s1, s2, B64[((b % 16) * 4) + 1]>>
                    ELSE LET c == bytes[3]
                         IN <<s1, s2, B64[((b % 16) * 4) + (c \div 64) + 1],
                              B64[(c % 64) + 1]>>
                            \o ToBase64Url(SubSeq(bytes, 4, Len(bytes)))

\* resolveStateBaseDir(env): MILHOUSE_STATE_DIR when set, else the data
\* directory of env-paths
resolveStateBaseDir(env) == IF env = "unset" THEN "/data" ELSE env

\* path.join(stateBaseDir, Buffer.from(workdir).toString("base64url"))
stateDirIn(base, workdir) == <<base, "/">> \o ToBase64Url(Utf8(workdir))

\* the three lines startSession broadcasts after the record is saved
StartLines(workdir) ==
    << <<"[milhouse] Starting run">>,
       <<"[milhouse] workdir: ", workdir>>,
       <<"[milhouse] state dir: ">> \o StateDirOf(workdir) >>

\* the record startSession builds
NewRecord(id, workdir) ==
    [id |-> id, workdir |-> workdir, stateDir |-> StateDirOf(workdir),
     startedAt |-> clock, endedAt |-> NoTime, status |-> "running",
     threadId |-> NoThread]

\* an exit that sets the status and leaves endedAt alone
ExitRecordNoStamp(rec, info) == [rec EXCEPT !.status = ExitStatus(info)]

\* currentSession.status = ...; currentSession.endedAt = new Date().toISOString()
ExitRecord(rec, info) ==
    [rec EXCEPT !.status = ExitStatus(info), !.endedAt = clock]

\* logBuffer = []: what the open connections have received so far belongs to
\* earlier runs
Stale(cl) == [i \in DOMAIN cl |-> [cl[i] EXCEPT !.earlier = Len(cl[i].received)]]

InitServer ==
    /\ child = NoChild
    /\ currentSession = NoSession
    /\ logBuffer = <<>>
    /\ clients = <<>>
    /\ sessionsFile = ListFile(<<OldRecord>>)
    /\ dirs = {defaultWorkdir}
    /\ signalled = FALSE
    /\ spawned = 0
    /\ stdoutPipe = <<>>
    /\ stderrPipe = <<>>
    /\ writes = 0
    /\ uuids = 0
    /\ conns = 0
    /\ clock = 3
    /\ response = "none"
    /\ up = TRUE

\* no loop runner has been launched, its state directory is empty
InitLoop ==
    /\ pc = "idle"
    /\ maxIterations = 0
    /\ iter = 0
    /\ planArtifact = NoFile
    /\ threadFile = NoThreadFile
    /\ turns = <<>>
    /\ inFlight = 0
    /\ planOutWrites = 0
    /\ buildOutWrites = 0
    /\ exitCode = NoCode

\* no state directory has been derived
InitPaths ==
    /\ envs = <<"unset", "unset">>
    /\ resolved = <<SlashP, SlashP>>
    /\ derived = <<NoDir, NoDir>>

\* no prompt has been rendered
InitPrompt ==
    /\ template = <<>>
    /\ goal = <<"g">>
    /\ rendered = NoFile

Init == InitServer /\ InitLoop /\ InitPaths /\ InitPrompt

(* POST /api/start -> startSession.  fault names the call that throws:     *)
(* "write" is fs.writeFileSync in saveSessions, "spawn" is spawn() itself;  *)
(* the route handler catches the error and answers 400.                     *)
startSession(input, createIfMissing, fault) ==
    LET workdir == normalizeWorkdir(input)
        id      == uuids + 1
        rec     == NewRecord(id, workdir)
        lines   == StartLines(workdir)
    IN
    /\ up
    /\ UNCHANGED <<up, loopVars, pathVars, promptVars>>
    /\ IF AlreadyRunning
       THEN /\ response' = "AlreadyRunning"
            /\ UNCHANGED <<child, currentSession, logBuffer, clients, sessionsFile,
                           dirs, signalled, spawned, stdoutPipe, stderrPipe,
                           writes, uuids, conns, clock>>
       ELSE IF WorkdirMissing(workdir, createIfMissing)
       THEN /\ response' = "WorkdirNotFound"
            /\ UNCHANGED <<child, currentSession, logBuffer, clients, sessionsFile,
                           dirs, signalled, spawned, stdoutPipe, stderrPipe,
                           writes, uuids, conns, clock>>
       ELSE /\ uuids < MaxRuns
            /\ dirs' = dirs \cup {workdir}
            /\ uuids' = id
            /\ clock' = clock + 1
            /\ currentSession' = rec
            /\ IF fault = "write" \/ SpreadThrows(sessionsFile)
               THEN /\ logBuffer' = <<>>
                    /\ clients' = Stale(clients)
                    /\ UNCHANGED <<sessionsFile, child, spawned, signalled>>
                    /\ response' = "error"
               ELSE /\ sessionsFile' =
                           ListFile(AppendRecord(ReadSessions(sessionsFile), rec))
                    /\ logBuffer' = Pushed(<<>>, lines)
                    /\ clients' = Written(Stale(clients), lines)
                    /\ IF fault = "spawn"
                       THEN /\ UNCHANGED <<child, spawned, signalled>>
                            /\ response' = "error"
                       ELSE /\ child' = id
                            /\ spawned' = spawned + 1
                            /\ signalled' = FALSE
                            /\ response' = "ok"
            /\ UNCHANGED <<stdoutPipe, stderrPipe, writes, conns>>

\* a stop that signals without looking at child
stopSessionUnguarded ==
    /\ up
    /\ signalled' = TRUE
    /\ UNCHANGED <<child, currentSession, logBuffer, clients, sessionsFile, dirs,
                   spawned, stdoutPipe, stderrPipe, writes, uuids, conns, clock,
                   response, up, loopVars, pathVars, promptVars>>

\* a stop that itself marks the run as ended
stopSessionEndsRun ==
    /\ up
    /\ signalled' = IF child # NoChild THEN TRUE ELSE signalled
    /\ child' = NoChild
    /\ UNCHANGED <<currentSession, logBuffer, clients, sessionsFile, dirs,
                   spawned, stdoutPipe, stderrPipe, writes, uuids, conns, clock,
                   response, up, loopVars, pathVars, promptVars>>

(* POST /api/stop -> stopSession: child.kill() sends SIGTERM *)
stopSession ==
    /\ up
    /\ signalled' = IF child # NoChild THEN TRUE ELSE signalled
    /\ UNCHANGED <<child, currentSession, logBuffer, clients, sessionsFile, dirs,
                   spawned, stdoutPipe, stderrPipe, writes, uuids, conns, clock,
                   response, up, loopVars, pathVars, promptVars>>

(* child.stdout.on("data") *)
onStdoutData(chunk) ==
    LET lines == SplitLines(chunk)
    IN /\ up
       /\ logBuffer' = Pushed(logBuffer, lines)
       /\ clients' = Written(clients, lines)
       /\ currentSession' =
             IF currentSession # NoSession
             THEN [currentSession EXCEPT !.threadId = ThreadAfter(@, lines)]
             ELSE currentSession
       /\ UNCHANGED <<child, sessionsFile, dirs, signalled, spawned, uuids,
                      conns, clock, response, up, loopVars, pathVars, promptVars>>

(* child.stderr.on("data") *)
onStderrData(chunk) ==
    LET lines  == SplitLines(chunk)
        tagged == [i \in 1..Len(lines) |-> StderrLine(lines[i])]
    IN /\ up
       /\ logBuffer' = Pushed(logBuffer, tagged)
       /\ clients' = Written(clients, tagged)
       /\ UNCHANGED <<child, currentSession, sessionsFile, dirs, signalled,
                      spawned, uuids, conns, clock, response, up, loopVars, pathVars, promptVars>>

(* child.on("exit"): SIGTERM is the signal child.kill() sent.  When the    *)
(* document parses to something that is no array, sessions.map throws in   *)
(* saveSessions; nothing catches it, the statements after it are not run   *)
(* and the uncaught exception ends the process.                            *)
onExit(info) ==
    /\ up
    /\ child # NoChild
    /\ info.signal = "SIGTERM" => signalled
    /\ logBuffer' = Pushed(logBuffer, <<ExitLine(info)>>)
    /\ clients' = Written(clients, <<ExitLine(info)>>)
    /\ clock' = clock + 1
    /\ IF currentSession # NoSession /\ MapThrows(sessionsFile)
       THEN /\ currentSession' = ExitRecord(currentSession, info)
            /\ up' = FALSE
            /\ UNCHANGED <<sessionsFile, child, signalled>>
       ELSE /\ IF currentSession # NoSession
               THEN LET rec == ExitRecord(currentSession, info)
                    IN /\ currentSession' = rec
                       /\ sessionsFile' =
                            ListFile(UpdateRecord(ReadSessions(sessionsFile), rec))
               ELSE UNCHANGED <<currentSession, sessionsFile>>
            /\ child' = NoChild
            /\ signalled' = FALSE
            /\ UNCHANGED up
    /\ UNCHANGED <<dirs, spawned, stdoutPipe, stderrPipe, writes, uuids, conns,
                   response, loopVars, pathVars, promptVars>>

(* GET /api/events: register the client, then replay the buffer *)
subscribe ==
    /\ up
    /\ conns < MaxClients
    /\ conns' = conns + 1
    /\ clients' = Append(clients, [id |-> conns + 1,
                                   received |-> Replay(logBuffer),
                                   replayed |-> Len(logBuffer),
                                   earlier |-> 0])
    /\ UNCHANGED <<child, currentSession, logBuffer, sessionsFile, dirs,
                   signalled, spawned, stdoutPipe, stderrPipe, writes, uuids,
                   clock, response, up, loopVars, pathVars, promptVars>>

(* req.on("close"): remove the client with this id *)
unsubscribe(id) ==
    /\ up
    /\ \E i \in DOMAIN clients : clients[i].id = id
    /\ clients' = SelectSeq(clients, LAMBDA c : c.id # id)
    /\ UNCHANGED <<child, currentSession, logBuffer, sessionsFile, dirs,
                   signalled, spawned, stdoutPipe, stderrPipe, writes, uuids,
                   conns, clock, response, up, loopVars, pathVars, promptVars>>

\* GET /api/status
status == [running |-> child # NoChild, session |-> currentSession]

----------------------------------------------------------------------------
(* The children as a source of output: a data event may carry any chunk at  *)
(* any time after a child was spawned; the streams of a child that has      *)
(* exited may still deliver.                                                *)

ChildStdout ==
    /\ spawned > 0
    /\ writes < MaxWrites
    /\ writes' = writes + 1
    /\ \E chunk \in Chunks("stdout", writes + 1) : onStdoutData(chunk)
    /\ UNCHANGED <<stdoutPipe, stderrPipe>>

ChildStderr ==
    /\ spawned > 0
    /\ writes < MaxWrites
    /\ writes' = writes + 1
    /\ \E chunk \in Chunks("stderr", writes + 1) : onStderrData(chunk)
    /\ UNCHANGED <<stdoutPipe, stderrPipe>>

Next ==
    \/ \E input \in WorkdirInputs, create \in BOOLEAN,
          fault \in {"none", "write", "spawn"} :
            startSession(input, create, fault)
    \/ stopSession
    \/ ChildStdout
    \/ ChildStderr
    \/ \E info \in ExitInfos : onExit(info)

Spec == Init /\ [][Next]_vars

(* The broadcaster: runs that start without error and exit with code 0,     *)
(* their output, and observers connecting to and leaving /api/events        *)
NextLog ==
    \/ \E input \in WorkdirInputs : startSession(input, TRUE, "none")
    \/ ChildStdout
    \/ ChildStderr
    \/ onExit([code |-> "0", signal |-> "null"])
    \/ subscribe
    \/ \E id \in 1..MaxClients : unsubscribe(id)

SpecLog == Init /\ [][NextLog]_vars

(* The broadcaster with several observers: one connected to /api/events     *)
(* before anything else happened, the others connect and leave during the   *)
(* first run.                                                               *)
EarlyClient == [id |-> 0, received |-> <<>>, replayed |-> 0, earlier |-> 0]

InitFanout ==
    /\ InitLoop
    /\ InitPaths
    /\ InitPrompt
    /\ child = NoChild
    /\ currentSession = NoSession
    /\ logBuffer = <<>>
    /\ clients = <<EarlyClient>>
    /\ sessionsFile = ListFile(<<OldRecord>>)
    /\ dirs = {defaultWorkdir}
    /\ signalled = FALSE
    /\ spawned = 0
    /\ stdoutPipe = <<>>
    /\ stderrPipe = <<>>
    /\ writes = 0
    /\ uuids = 0
    /\ conns = 0
    /\ clock = 3
    /\ response = "none"
    /\ up = TRUE

NextFanout ==
    \/ \E input \in WorkdirInputs :
          spawned = 0 /\ startSession(input, TRUE, "none")
    \/ ChildStdout
    \/ ChildStderr
    \/ subscribe
    \/ \E id \in 0..MaxClients : unsubscribe(id)

SpecFanout == InitFanout /\ [][NextFanout]_vars

----------------------------------------------------------------------------
(* The supervisor next to whatever else writes the state directory: while a *)
(* run is active sessions.json may be truncated, deleted or put back from   *)
(* an older copy.                                                           *)

FileReplaced(file) ==
    /\ up
    /\ child # NoChild
    /\ sessionsFile # file
    /\ sessionsFile' = file
    /\ UNCHANGED <<child, currentSession, logBuffer, clients, dirs, signalled,
                   spawned, stdoutPipe, stderrPipe, writes, uuids, conns,
                   clock, response, up, loopVars, pathVars, promptVars>>

NextEnv ==
    \/ \E input \in WorkdirInputs : startSession(input, TRUE, "none")
    \/ stopSession
    \/ ChildStdout
    \/ \E info \in ExitInfos : onExit(info)
    \/ \E file \in {CorruptFile, AbsentFile, NonListFile, ListFile(<<OldRecord>>)} :
          FileReplaced(file)

SpecEnv == Init /\ [][NextEnv]_vars

----------------------------------------------------------------------------
(* The supervisor on a registry document that is damaged at any time, also  *)
(* between runs: left unparsable, or holding a JSON value that is no array. *)

FileDamaged(file) ==
    /\ up
    /\ sessionsFile # file
    /\ sessionsFile' = file
    /\ UNCHANGED <<child, currentSession, logBuffer, clients, dirs, signalled,
                   spawned, stdoutPipe, stderrPipe, writes, uuids, conns,
                   clock, response, up, loopVars, pathVars, promptVars>>

NextDamage ==
    \/ \E input \in WorkdirInputs : startSession(input, TRUE, "none")
    \/ stopSession
    \/ ChildStdout
    \/ \E info \in ExitInfos : onExit(info)
    \/ \E file \in {CorruptFile, NonListFile} : FileDamaged(file)

SpecDamage == Init /\ [][NextDamage]_vars

----------------------------------------------------------------------------
(* One run with the two pipes of its child: the child writes whole lines,   *)
(* each pipe delivers what it holds in order, in chunks cut anywhere, and   *)
(* may still deliver after the exit event.                                  *)

ChildWrite(stream) ==
    /\ child # NoChild
    /\ writes < MaxWrites
    /\ writes' = writes + 1
    /\ IF stream = "stdout"
       THEN /\ stdoutPipe' = stdoutPipe \o ChildLine(stream, writes + 1) \o <<NL>>
            /\ UNCHANGED stderrPipe
       ELSE /\ stderrPipe' = stderrPipe \o ChildLine(stream, writes + 1) \o <<NL>>
            /\ UNCHANGED stdoutPipe
    /\ UNCHANGED <<child, currentSession, logBuffer, clients, sessionsFile, dirs,
                   signalled, spawned, uuids, conns, clock, response, up, loopVars, pathVars, promptVars>>

DeliverStdout(k) ==
    /\ k \in 1..Len(stdoutPipe)
    /\ onStdoutData(SubSeq(stdoutPipe, 1, k))
    /\ stdoutPipe' = SubSeq(stdoutPipe, k + 1, Len(stdoutPipe))
    /\ UNCHANGED <<stderrPipe, writes>>

DeliverStderr(k) ==
    /\ k \in 1..Len(stderrPipe)
    /\ onStderrData(SubSeq(stderrPipe, 1, k))
    /\ stderrPipe' = SubSeq(stderrPipe, k + 1, Len(stderrPipe))
    /\ UNCHANGED <<stdoutPipe, writes>>

NextPipe ==
    \/ \E input \in WorkdirInputs :
          spawned = 0 /\ startSession(input, TRUE, "none")
    \/ \E stream \in Streams : ChildWrite(stream)
    \/ \E k \in 1..(3 * MaxWrites) : DeliverStdout(k)
    \/ \E k \in 1..(3 * MaxWrites) : DeliverStderr(k)
    \/ onExit([code |-> "0", signal |-> "null"])
    \/ subscribe
    \/ \E id \in 1..MaxClients : unsubscribe(id)

SpecPipe == Init /\ [][NextPipe]_vars

(* Two runs, of which only the first child writes: whatever the pipes hold  *)
(* or deliver is output of the first child, also after its exit event and   *)
(* after the second run was started.                                        *)
FirstChildWrites(stream) == spawned = 1 /\ ChildWrite(stream)

NextLate ==
    \/ \E input \in WorkdirInputs : startSession(input, TRUE, "none")
    \/ \E stream \in Streams : FirstChildWrites(stream)
    \/ \E k \in 1..(3 * MaxWrites) : DeliverStdout(k)
    \/ \E k \in 1..(3 * MaxWrites) : DeliverStderr(k)
    \/ \E info \in ExitInfos : onExit(info)

SpecLate == Init /\ [][NextLate]_vars

----------------------------------------------------------------------------
(* The loop runner (loop-runner.ts): one plan turn, then build turns until  *)
(* the plan artifact is marked done or the iteration budget is used up.     *)
(* Between two awaits main runs without interruption; while a turn is in    *)
(* flight the agent works on the files of the state directory.              *)

serverVars == <<child, currentSession, logBuffer, clients, sessionsFile, dirs,
                signalled, spawned, writes, uuids, conns, clock, response, up>>

\* the handle of a thread is "t" followed by one of these
Handles == {"1"}
\* what a state directory used by an earlier run holds in thread_id
StaleHandle == "2"

\* plan artifacts: the atoms are the token "STATUS:", one blank, the words
\* "DONE" and "READY", a letter "x" and a full stop
PlanTexts ==
    { <<>>,
      <<"STATUS:", " ", "READY">>,
      <<"STATUS:", " ", "DONE">>,
      <<"STATUS:", "DONE">>,
      <<"STATUS:", " ", " ", "DONE", ".">>,
      <<"STATUS:", " ", "DONE", "x">>,
      <<"x", "STATUS:", " ", "DONE">> }

\* \w at the start of the atom
WordStart(a) == a \in {"STATUS:", "DONE", "READY", "x"}

\* text.includes("STATUS: DONE")
IncludesLiteral(text) ==
    \E i \in DOMAIN text :
        /\ i + 2 <= Len(text)
        /\ text[i] = "STATUS:"
        /\ text[i + 1] = " "
        /\ text[i + 2] = "DONE"

\* /STATUS:\s*DONE\b/.test(text)
DoneRegex(text) ==
    \E i \in DOMAIN text : \E j \in DOMAIN text :
        /\ i < j
        /\ text[i] = "STATUS:"
        /\ text[j] = "DONE"
        /\ \A k \in (i + 1)..(j - 1) : text[k] = " "
        /\ (j = Len(text) \/ ~WordStart(text[j + 1]))

\* readTextIfExists(planPath) ?? ""
readTextIfExists(file) == IF file = NoFile THEN <<>> ELSE file

\* String(n)
String(n) ==
    CASE n = 0 -> "0" [] n = 1 -> "1" [] n = 2 -> "2" [] n = 3 -> "3"
      [] n = 4 -> "4" [] n = 5 -> "5" [] OTHER -> "6"

\* `thread: ${threadId}\n`
Announce(h) == <<ThreadTag, h, NL>>
ReachedLine(n) == <<"Reached max iterations: ", String(n), NL>>
DoneLine == <<"Plan marked DONE. Exiting.", NL>>
LoopLine(n) == <<"================ LOOP ", String(n), " ================", NL>>
\* err.stack ?? err.message
ErrorText == <<"Error: turn failed", NL>>

\* a plan turn that resumes the thread of the file thread_id
PlanThreadIdFromFile == IF threadFile = NoThreadFile THEN NoHandle ELSE threadFile

\* threadId: undefined
PlanThreadId == NoHandle

\* thread_id as other hands may have left it: without content, or with the
\* handle of an earlier run followed by a newline
EmptyThreadFile == ""
PaddedStaleHandle == "2\n"

\* text.trim()
trim(text) == IF text = PaddedStaleHandle THEN StaleHandle ELSE text

\* a build turn that is given the content of thread_id as it is
BuildThreadIdUntrimmed(file) == IF file = NoThreadFile THEN NoHandle ELSE file

\* readTextIfExists(threadFile)?.trim() || undefined
BuildThreadId(file) ==
    IF file = NoThreadFile \/ trim(file) = "" THEN NoHandle ELSE trim(file)

\* a budget check that takes 0 for a budget of no iteration
BudgetCountsZero(it) == it >= maxIterations

\* a budget check that lets one more iteration through
BudgetUsedLate(it) == maxIterations > 0 /\ it > maxIterations

\* args.maxIterations > 0 && iter >= args.maxIterations
BudgetUsed(it) == maxIterations > 0 /\ it >= maxIterations

\* a budget stop that ends the process as a failure
BudgetExitAsFailure == "1"

\* break at the budget: main returns and the process ends with code 0
BudgetExit == "0"

\* the top of the while loop with iter = it, after out was written to stdout
\* and with file in thread_id: stop on the budget or start a build turn
LoopTop(it, out, file, returned) ==
    IF BudgetUsed(it)
    THEN /\ stdoutPipe' = out \o ReachedLine(maxIterations)
         /\ pc' = "exited"
         /\ exitCode' = BudgetExit
         /\ inFlight' = returned
         /\ UNCHANGED turns
    ELSE /\ Len(turns) <= MaxTurns
         /\ stdoutPipe' = out
         /\ pc' = "buildTurn"
         /\ turns' = Append(turns, [kind |-> "build",
                                    threadId |-> BuildThreadId(file)])
         /\ inFlight' = returned + 1
         /\ UNCHANGED exitCode

\* main up to the first await: the plan turn is started
main(n) ==
    /\ pc = "idle"
    /\ maxIterations' = n
    /\ pc' = "planTurn"
    /\ turns' = <<[kind |-> "plan", threadId |-> PlanThreadId]>>
    /\ inFlight' = inFlight + 1
    /\ UNCHANGED <<iter, planArtifact, threadFile, planOutWrites,
                   buildOutWrites, exitCode, stdoutPipe, stderrPipe, serverVars, pathVars, promptVars>>

\* the plan turn returns with the handle h: plan_out.log, thread_id, the
\* announcement, then the loop is entered with iter = 0
PlanReturns(h) ==
    /\ pc = "planTurn"
    /\ planOutWrites' = planOutWrites + 1
    /\ threadFile' = IF h # NoHandle THEN h ELSE threadFile
    /\ iter' = 0
    /\ LoopTop(0,
               IF h # NoHandle THEN stdoutPipe \o Announce(h) ELSE stdoutPipe,
               IF h # NoHandle THEN h ELSE threadFile,
               inFlight - 1)
    /\ UNCHANGED <<maxIterations, planArtifact, buildOutWrites, stderrPipe,
                   serverVars, pathVars, promptVars>>

\* a build turn returns with the handle h: build_out.log, thread_id, the
\* announcement, the completion check, then the next round of the loop
BuildReturns(h) ==
    LET out  == IF h # NoHandle THEN stdoutPipe \o Announce(h) ELSE stdoutPipe
        file == IF h # NoHandle THEN h ELSE threadFile
    IN
    /\ pc = "buildTurn"
    /\ buildOutWrites' = buildOutWrites + 1
    /\ threadFile' = file
    /\ IF DoneRegex(readTextIfExists(planArtifact))
       THEN /\ stdoutPipe' = out \o DoneLine
            /\ pc' = "exited"
            /\ exitCode' = "0"
            /\ inFlight' = inFlight - 1
            /\ UNCHANGED <<iter, turns>>
       ELSE /\ iter' = iter + 1
            /\ LoopTop(iter + 1, out \o LoopLine(iter + 1), file, inFlight - 1)
    /\ UNCHANGED <<maxIterations, planArtifact, planOutWrites, stderrPipe,
                   serverVars, pathVars, promptVars>>

\* runTurn rejects: main().catch writes the error and exits with code 1
TurnFails ==
    /\ pc \in {"planTurn", "buildTurn"}
    /\ stderrPipe' = stderrPipe \o ErrorText
    /\ pc' = "exited"
    /\ exitCode' = "1"
    /\ inFlight' = inFlight - 1
    /\ UNCHANGED <<maxIterations, iter, planArtifact, threadFile, turns,
                   planOutWrites, buildOutWrites, stdoutPipe, serverVars, pathVars, promptVars>>

\* the agent of the turn in flight rewrites or removes the plan artifact
AgentWrites(text) ==
    /\ pc \in {"planTurn", "buildTurn"}
    /\ planArtifact # text
    /\ planArtifact' = text
    /\ UNCHANGED <<pc, maxIterations, iter, threadFile, turns, inFlight,
                   planOutWrites, buildOutWrites, exitCode, stdoutPipe,
                   stderrPipe, serverVars, pathVars, promptVars>>

\* the loop runner on its own, in a state directory that may have been used
\* by an earlier run
InitEngine ==
    /\ InitServer
    /\ pc = "idle"
    /\ maxIterations = 0
    /\ iter = 0
    /\ planArtifact \in PlanTexts \cup {NoFile}
    /\ threadFile \in {NoThreadFile, StaleHandle, EmptyThreadFile, PaddedStaleHandle}
    /\ turns = <<>>
    /\ inFlight = 0
    /\ planOutWrites = 0
    /\ buildOutWrites = 0
    /\ exitCode = NoCode
    /\ InitPaths
    /\ InitPrompt

NextEngine ==
    \/ \E n \in 0..MaxBudget : main(n)
    \/ \E h \in Handles \cup {NoHandle} : PlanReturns(h)
    \/ \E h \in Handles \cup {NoHandle} : BuildReturns(h)
    \/ TurnFails
    \/ \E text \in PlanTexts \cup {NoFile} : AgentWrites(text)

SpecEngine == InitEngine /\ [][NextEngine]_vars

----------------------------------------------------------------------------
(* One run of the supervisor with the loop runner as its child: the child   *)
(* starts main once it is spawned, what it writes goes through the two      *)
(* pipes, and its exit code comes with the exit event.                      *)

Launch(n) == child # NoChild /\ main(n)

\* what the agent leaves in the plan artifact in this run
RunTexts == { <<"STATUS:", " ", "READY">>, <<"STATUS:", " ", "DONE">> }

ExitOfLoop ==
    /\ pc = "exited"
    /\ onExit([code |-> exitCode, signal |-> "null"])

NextRun ==
    \/ \E input \in WorkdirInputs :
          spawned = 0 /\ startSession(input, TRUE, "none")
    \/ \E n \in 0..MaxBudget : Launch(n)
    \/ \E h \in Handles \cup {NoHandle} : PlanReturns(h)
    \/ \E h \in Handles \cup {NoHandle} : BuildReturns(h)
    \/ TurnFails
    \/ \E text \in RunTexts : AgentWrites(text)
    \/ DeliverStdout(Len(stdoutPipe))
    \/ \E k \in 1..Len(stderrPipe) : DeliverStderr(k)
    \/ ExitOfLoop

SpecRun == Init /\ [][NextRun]_vars

----------------------------------------------------------------------------
(* The derivation of the state directory, for two starts in two supervisor  *)
(* lifetimes (which may be the same one).                                   *)

\* what MILHOUSE_STATE_DIR may hold at the launch of a supervisor
Envs == {"unset", "/s"}

\* the code units a workdir is made of after its leading "/"
PathUnits == {112, 233, 8364, 55296, 56320}

RECURSIVE StringsUpTo(_)
StringsUpTo(n) ==
    IF n = 0 THEN {<<>>}
    ELSE LET shorter == StringsUpTo(n - 1)
         IN shorter \cup {Append(w, u) : w \in shorter, u \in PathUnits}

\* resolved workdirs: absolute paths
Workdirs == {<<47>> \o w : w \in StringsUpTo(MaxPathLen - 1) \ {<<>>}}

InitDerive ==
    /\ InitServer
    /\ InitLoop
    /\ envs \in Envs \X Envs
    /\ resolved \in Workdirs \X Workdirs
    /\ derived = <<NoDir, NoDir>>
    /\ InitPrompt

\* startSession computes stateDir in lifetime i
Derive(i) ==
    /\ derived[i] = NoDir
    /\ derived' = [derived EXCEPT ![i] =
                      stateDirIn(resolveStateBaseDir(envs[i]), resolved[i])]
    /\ UNCHANGED <<envs, resolved, stdoutPipe, stderrPipe, serverVars, loopVars,
                   promptVars>>

NextDerive == \E i \in 1..2 : Derive(i)

SpecDerive == InitDerive /\ [][NextDerive]_vars

----------------------------------------------------------------------------
(* The rendering of a prompt (loop-runner.ts, renderPrompt).  Texts are     *)
(* sequences of characters; each placeholder counts as one character.       *)

GoalKey == "{{GOAL}}"
PlanPathKey == "{{PLAN_PATH}}"
\* path.join(args.stateDir, "IMPLEMENTATION_PLAN.md")
planPath == <<"/", "s", "/", "P">>

\* the backtick and the apostrophe as characters of a text
Backtick == "backtick"
Apostrophe == "apostrophe"

\* GetSubstitution of String.prototype.replaceAll for a string pattern: in the
\* replacement text "$$" stands for "$", "$&" for the matched text, "$" and a
\* backtick for the text before the match, "$" and an apostrophe for the text
\* after it; any other "$" stands for itself
RECURSIVE GetSubstitution(_, _, _, _)
GetSubstitution(value, matched, before, after) ==
    IF value = <<>> THEN <<>>
    ELSE IF Head(value) = "$" /\ Len(value) > 1 /\ value[2] \in {"$", "&", Backtick, Apostrophe}
    THEN (CASE value[2] = "$" -> <<"$">>
            [] value[2] = "&" -> matched
            [] value[2] = Backtick -> before
            [] OTHER -> after)
         \o GetSubstitution(Tail(Tail(value)), matched, before, after)
    ELSE <<Head(value)>> \o GetSubstitution(Tail(value), matched, before, after)

\* next.replaceAll(key, value), from position i on
RECURSIVE StringReplaceAll(_, _, _, _)
StringReplaceAll(text, i, key, value) ==
    IF i > Len(text) THEN <<>>
    ELSE (IF text[i] = key
          THEN GetSubstitution(value, <<key>>, SubSeq(text, 1, i - 1),
                               SubSeq(text, i + 1, Len(text)))
          ELSE <<text[i]>>)
         \o StringReplaceAll(text, i + 1, key, value)

\* replaceAll(template, {"{{GOAL}}": goal, "{{PLAN_PATH}}": planPath}): one
\* pass per key, in the order of the keys
replaceAll(text, goalText, pathText) ==
    StringReplaceAll(StringReplaceAll(text, 1, GoalKey, goalText),
                     1, PlanPathKey, pathText)

TemplateChars == {"a", GoalKey, PlanPathKey}
GoalChars == {"g", "$", "&", PlanPathKey}

RECURSIVE TextsUpTo(_, _)
TextsUpTo(chars, n) ==
    IF n = 0 THEN {<<>>}
    ELSE LET shorter == TextsUpTo(chars, n - 1)
         IN shorter \cup {Append(w, c) : w \in shorter, c \in chars}

InitRender ==
    /\ InitServer
    /\ InitLoop
    /\ InitPaths
    /\ template \in TextsUpTo(TemplateChars, MaxTextLen)
    /\ goal \in TextsUpTo(GoalChars, MaxTextLen) \ {<<>>}
    /\ rendered = NoFile

\* renderPrompt(templatePath, outputPath, replacements)
renderPrompt ==
    /\ rendered = NoFile
    /\ rendered' = replaceAll(template, goal, planPath)
    /\ UNCHANGED <<template, goal, stdoutPipe, stderrPipe, serverVars, loopVars,
                   pathVars>>

NextRender == renderPrompt

SpecRender == InitRender /\ [][NextRender]_vars

----------------------------------------------------------------------------
(* Properties *)

Recs == ReadSessions(sessionsFile)
Terminal(s) == s \in {"succeeded", "failed", "stopped"}
IsStart == \E input \in WorkdirInputs, create \in BOOLEAN,
              fault \in {"none", "write", "spawn"} :
                startSession(input, create, fault)
IsExit == \E info \in ExitInfos : onExit(info)
RunningIn(recs) == {i \in DOMAIN recs : recs[i].status = "running"}

\* C1: at every instant the registry holds at most one record whose status
\* is running.
C1_AtMostOneRunning == Cardinality(RunningIn(Recs)) <= 1

\* C2: a start while a child is active answers AlreadyRunning and leaves the
\* registry, the log buffer, the session record, the child and the clients
\* as they were.
C2_StartWhileActive ==
    [][ (child # NoChild /\ IsStart) =>
            /\ response' = "AlreadyRunning"
            /\ UNCHANGED <<sessionsFile, logBuffer, currentSession, child,
                           clients>> ]_vars

C2_Witness ==
    /\ response = "AlreadyRunning"
    /\ child # NoChild
    /\ Len(Recs) = 2

\* C3: the exit event sets the active session's status from the exit
\* information (code 0: succeeded; else SIGTERM: stopped; else failed), in
\* memory and in the registry, and no other event changes the status of a
\* session.
C3_StatusFromExit ==
    [][ /\ \A info \in ExitInfos :
              onExit(info) =>
                LET want == IF info.code = "0" THEN "succeeded"
                            ELSE IF info.signal = "SIGTERM" THEN "stopped"
                            ELSE "failed"
                IN /\ currentSession'.id = currentSession.id
                   /\ currentSession'.status = want
                   /\ \E i \in DOMAIN Recs' :
                         /\ Recs'[i].id = currentSession.id
                         /\ Recs'[i].status = want
        /\ ~IsExit =>
              /\ (currentSession # NoSession /\ currentSession'.id = currentSession.id)
                    => currentSession'.status = currentSession.status
              /\ \A i \in DOMAIN Recs : \A j \in DOMAIN Recs' :
                    Recs'[j].id = Recs[i].id => Recs'[j].status = Recs[i].status
      ]_vars

C3_Witness ==
    /\ currentSession # NoSession
    /\ currentSession.status = "stopped"
    /\ \E i \in DOMAIN Recs : Recs[i].id = currentSession.id /\ Recs[i].status = "stopped"

\* C4: for the in-memory record and every record of the registry, endedAt is
\* set if and only if status is not running.
C4_EndedIffNotRunning ==
    /\ currentSession # NoSession =>
          ((currentSession.endedAt # NoTime) <=> (currentSession.status # "running"))
    /\ \A i \in DOMAIN Recs :
          (Recs[i].endedAt # NoTime) <=> (Recs[i].status # "running")

C4_Witness ==
    /\ currentSession # NoSession
    /\ currentSession.status = "failed"
    /\ \E i \in DOMAIN Recs : Recs[i] = currentSession
    /\ \E i \in DOMAIN Recs : Recs[i].status = "running"

\* C5: a record starts at running and its status moves at most once: a new
\* record is running, and a record whose status is terminal keeps that status
\* (in the registry it stays where it is, with its id).
C5_StatusMovesOnce ==
    [][ /\ \A i \in DOMAIN Recs :
              Terminal(Recs[i].status) =>
                /\ i \in DOMAIN Recs'
                /\ Recs'[i].id = Recs[i].id
                /\ Recs'[i].status = Recs[i].status
        /\ \A j \in DOMAIN Recs' : j \notin DOMAIN Recs => Recs'[j].status = "running"
        /\ (currentSession # NoSession /\ Terminal(currentSession.status)
              /\ currentSession'.id = currentSession.id)
              => currentSession'.status = currentSession.status
        /\ (currentSession' # NoSession /\ currentSession'.id # currentSession.id)
              => currentSession'.status = "running"
      ]_vars

C5_Witness ==
    /\ Len(Recs) = 3
    /\ Terminal(Recs[2].status)
    /\ Recs[3].status = "running"
    /\ currentSession = Recs[3]
    /\ writes > 0

IsPrefix(s, t) == Len(s) <= Len(t) /\ SubSeq(t, 1, Len(s)) = s

\* C6 (its second half): a record that has reached a terminal status is never
\* deleted and none of its fields changes afterwards, neither in the registry
\* nor in the in-memory record, whatever is delivered after the exit event.
C6_TerminalRecordsFrozen ==
    [][ /\ \A i \in DOMAIN Recs :
              Terminal(Recs[i].status) =>
                (i \in DOMAIN Recs' /\ Recs'[i] = Recs[i])
        /\ (currentSession # NoSession /\ Terminal(currentSession.status)
              /\ currentSession'.id = currentSession.id)
              => currentSession' = currentSession
      ]_vars

\* C8: the log buffer only grows by appending, except in a start that begins
\* a new run; no other step, and no start that fails, empties or shortens it.
C8_BufferClearedOnlyByNewRun ==
    [][ \/ IsPrefix(logBuffer, logBuffer')
        \/ (IsStart /\ child = NoChild /\ child' # NoChild)
      ]_vars

\* the lines of the payloads a client was sent during the current run
Received(c) ==
    [k \in 1..(Len(c.received) - c.earlier) |->
        LET p == c.received[c.earlier + k] IN SubSeq(p, 2, Len(p) - 1)]

\* C7: within one run, what a subscriber has received always equals the log
\* buffer: the replay of the buffer as it stood at connection followed by
\* every line published since, none missing, duplicated or out of order.
C7_ReceivedEqualsBuffer ==
    \A i \in DOMAIN clients : Received(clients[i]) = logBuffer

\* a subscriber that connected after four publishes of a run and one that
\* connected before any publish, each having received lines published later
C7_Witness ==
    /\ child # NoChild
    /\ \E i \in DOMAIN clients :
          /\ clients[i].earlier = 0
          /\ clients[i].replayed = 4
          /\ Len(clients[i].received) = 5

\* the other case of C7: a subscriber that connected before any publish and
\* has been sent the lines published since
C7_WitnessEarly ==
    \E i \in DOMAIN clients :
        /\ clients[i].replayed = 0
        /\ Len(clients[i].received) >= 4

\* the marks of the lines of a sequence, in the order of the lines
RECURSIVE MarkSeq(_, _)
MarkSeq(lines, marks) ==
    IF lines = <<>> THEN <<>>
    ELSE LET here == SelectSeq(Head(lines), LAMBDA a : a \in marks)
         IN here \o MarkSeq(Tail(lines), marks)

\* when the mark m was produced
Serial(m) == CHOOSE k \in 1..6 : m \in {Mark("stdout", k), Mark("stderr", k)}

Increasing(ms) ==
    \A i \in DOMAIN ms : \A j \in DOMAIN ms : i < j => Serial(ms[i]) < Serial(ms[j])

Tagged(line) == line # <<>> /\ Head(line) = "[stderr] "

\* C9: every observer receives the child's lines in the order the child
\* wrote them, whichever stream each was written on, stderr lines tagged.
C9_ProductionOrder ==
    \A i \in DOMAIN clients :
        LET got == Received(clients[i])
        IN /\ Increasing(MarkSeq(got, Marks("stdout") \cup Marks("stderr")))
           /\ \A n \in DOMAIN got :
                 (\E a \in Marks("stderr") : a \in {got[n][x] : x \in DOMAIN got[n]})
                    => Tagged(got[n])

\* C9 as amended: every observer receives what the child wrote on one stream
\* in the order it was written, stderr lines tagged;
\* lines of different streams come in the order their data events arrived.
C9_PerStreamOrder ==
    \A i \in DOMAIN clients :
        LET got == Received(clients[i])
        IN /\ Increasing(MarkSeq(got, Marks("stdout")))
           /\ Increasing(MarkSeq(got, Marks("stderr")))
           /\ \A n \in DOMAIN got :
                 (\E a \in Marks("stderr") : a \in {got[n][x] : x \in DOMAIN got[n]})
                    => Tagged(got[n])

\* an observer that was sent the second line, written on stderr, before the
\* first, written on stdout
C9_Witness ==
    \E i \in DOMAIN clients :
        MarkSeq(Received(clients[i]), Marks("stdout") \cup Marks("stderr"))
            = <<Mark("stderr", 2), Mark("stdout", 1)>>

\* C10: once the child of a run whose record was appended has exited, the
\* registry holds a record with the run's id, terminal and with endedAt set,
\* and the log buffer holds the exit line, whatever happened to the registry
\* document between the start and the exit.
C10_OutcomeKept ==
    (child = NoChild /\ currentSession # NoSession
        /\ Terminal(currentSession.status))
    => /\ \E i \in DOMAIN Recs :
             /\ Recs[i].id = currentSession.id
             /\ Terminal(Recs[i].status)
             /\ Recs[i].endedAt # NoTime
       /\ \E n \in DOMAIN logBuffer, info \in ExitInfos :
             logBuffer[n] = ExitLine(info)

\* C11: every processing of the child's exit event leaves the supervisor
\* running with no active child, so that the next start is not refused with
\* AlreadyRunning, whatever the registry document holds at that moment.
C11_ExitClearsChild ==
    [][ IsExit => (up' /\ child' = NoChild /\ ~AlreadyRunning') ]_vars

StartsRun == IsStart /\ child = NoChild /\ child' # NoChild
ExitsClean == \E info \in ExitInfos : info.code = "0" /\ onExit(info)

\* C12: status() reports running = TRUE from a successful start until the
\* exit event of that run is processed and FALSE otherwise; after an exit
\* with code 0 it reports the final record (succeeded, endedAt set) and goes
\* on reporting that record until the next successful start.
C12_StatusReport ==
    [][ /\ StartsRun => status'.running
        /\ IsExit => ~status'.running
        /\ (status'.running # status.running) => (StartsRun \/ IsExit)
        /\ ExitsClean => /\ status'.session.status = "succeeded"
                         /\ status'.session.endedAt # NoTime
        /\ ( /\ ~status.running
             /\ status.session # NoSession
             /\ status.session.status = "succeeded"
             /\ ~StartsRun )
           => status'.session = status.session ]_vars

\* C13: a stop while no run is active changes nothing: the registry, the log
\* buffer, the session record, the child reference and the clients stay as
\* they are and no signal is sent, each time it is called.
C13_StopWhenIdle ==
    [][ (child = NoChild /\ stopSession) =>
            UNCHANGED <<sessionsFile, logBuffer, currentSession, child,
                        signalled, clients, up>> ]_vars

\* stop can be called with no run active after a run was stopped and has
\* exited, which left a record and a buffer to keep
C13_Witness ==
    /\ child = NoChild
    /\ currentSession # NoSession
    /\ currentSession.status = "stopped"
    /\ logBuffer # <<>>
    /\ ENABLED stopSession

\* C14: a start whose resolved workdir does not exist fails with
\* WorkdirNotFound and changes nothing when createIfMissing is false (no
\* record, buffer not reset, session and child unchanged, no child launched,
\* no directory made); when it is true the directory is made and the start
\* goes on to create the run.
C14_WorkdirNotFound ==
    [][ \A input \in WorkdirInputs :
          LET w == normalizeWorkdir(input)
          IN (child = NoChild /\ w \notin dirs) =>
               /\ (\E fault \in {"none", "write", "spawn"} :
                       startSession(input, FALSE, fault))
                  => /\ response' = "WorkdirNotFound"
                     /\ UNCHANGED <<sessionsFile, logBuffer, currentSession,
                                    child, spawned, dirs, clients>>
               /\ (\E fault \in {"none", "write", "spawn"} :
                       startSession(input, TRUE, fault))
                  => /\ w \in dirs'
                     /\ response' # "WorkdirNotFound"
                     /\ currentSession'.workdir = w
               /\ startSession(input, TRUE, "none")
                  => /\ child' # NoChild
                     /\ response' = "ok" ]_vars

\* a start was refused for its missing workdir
C14_Witness ==
    /\ response = "WorkdirNotFound"
    /\ child = NoChild
    /\ \E input \in WorkdirInputs : normalizeWorkdir(input) \notin dirs

Builds == Len(SelectSeq(turns, LAMBDA t : t.kind = "build"))
IsBuildReturn == \E h \in Handles \cup {NoHandle} : BuildReturns(h)
IsPlanReturn == \E h \in Handles \cup {NoHandle} : PlanReturns(h)
Marked == DoneRegex(readTextIfExists(planArtifact))
EndsWith(out, line) ==
    /\ Len(out) >= Len(line)
    /\ SubSeq(out, Len(out) - Len(line) + 1, Len(out)) = line
Emitted(out, line) ==
    \E i \in 1..Len(out) : i + Len(line) - 1 <= Len(out)
                            /\ SubSeq(out, i, i + Len(line) - 1) = line

\* C15: with maxIterations = N > 0 the loop runner never starts more than N
\* build turns, and each build turn that returns and finds the plan artifact
\* without the completion marker is followed by the next build turn while
\* fewer than N have run, and by the reached-max-iterations message and the
\* end of the run when N have run.
C15_BudgetStopsLoop ==
    [][ /\ maxIterations' > 0 => Builds' <= maxIterations'
        /\ (IsBuildReturn /\ maxIterations > 0 /\ ~Marked) =>
              IF buildOutWrites' = maxIterations
              THEN /\ pc' = "exited"
                   /\ exitCode' = "0"
                   /\ EndsWith(stdoutPipe', ReachedLine(maxIterations))
                   /\ turns' = turns
              ELSE /\ buildOutWrites' < maxIterations
                   /\ pc' = "buildTurn"
                   /\ Builds' = Builds + 1
                   /\ ~Emitted(stdoutPipe', ReachedLine(maxIterations)) ]_vars

\* a run with budget 2 that ended on the budget after two build turns
C15_Witness ==
    /\ pc = "exited"
    /\ maxIterations = 2
    /\ Builds = 2
    /\ buildOutWrites = 2
    /\ EndsWith(stdoutPipe, ReachedLine(2))

\* C16: whatever the budget (0 included) and whatever the plan artifact
\* holds, the return of the plan turn starts the first build turn; when that
\* turn returns and the plan artifact holds the completion marker, the run
\* ends normally with one build turn made and build_out.log written once.
C16_OneBuildWhenDone ==
    [][ /\ IsPlanReturn => /\ pc' = "buildTurn"
                           /\ Builds' = 1
                           /\ buildOutWrites' = 0
        /\ (IsBuildReturn /\ Builds = 1 /\ Marked) =>
              /\ pc' = "exited"
              /\ exitCode' = "0"
              /\ EndsWith(stdoutPipe', DoneLine)
              /\ Builds' = 1
              /\ buildOutWrites' = 1 ]_vars

\* an unbounded run that found the marker after its first build turn
C16_Witness ==
    /\ pc = "exited"
    /\ maxIterations = 0
    /\ Marked
    /\ Builds = 1
    /\ buildOutWrites = 1
    /\ EndsWith(stdoutPipe, DoneLine)

StopsDone == pc' = "exited" /\ exitCode' = "0" /\ EndsWith(stdoutPipe', DoneLine)

\* C17: after a build turn the loop runner stops with normal completion
\* exactly when the plan artifact contains the literal text "STATUS: DONE";
\* with any other content, or no file, the loop goes on.
C17_LiteralMarker ==
    [][ IsBuildReturn =>
          (StopsDone <=> IncludesLiteral(readTextIfExists(planArtifact))) ]_vars

\* the plan artifacts that end the run: "STATUS:" followed by any number of
\* blanks, none included, then "DONE" not followed by a letter
DoneTexts ==
    { <<"STATUS:", " ", "DONE">>,
      <<"STATUS:", "DONE">>,
      <<"STATUS:", " ", " ", "DONE", ".">>,
      <<"x", "STATUS:", " ", "DONE">> }

\* C17 as amended: after a build turn the loop runner stops with normal
\* completion exactly when the plan artifact matches STATUS:, any whitespace
\* (none included), DONE at a word boundary; with any other content
\* ("STATUS: READY", no status line, "STATUS: DONEx", no file) the loop goes
\* on to its next round.
C17_PatternMarker ==
    [][ IsBuildReturn =>
          /\ StopsDone <=> planArtifact \in DoneTexts
          /\ ~StopsDone => /\ iter' = iter + 1
                           /\ EndsWith(stdoutPipe', ReachedLine(maxIterations))
                                \/ pc' = "buildTurn" ]_vars

\* a run that ended on a plan artifact reading "STATUS:DONE"
C17_Witness ==
    /\ pc = "exited"
    /\ exitCode = "0"
    /\ planArtifact = <<"STATUS:", "DONE">>
    /\ EndsWith(stdoutPipe, DoneLine)

\* C18: with maxIterations = 0 the budget never ends the loop: the
\* reached-max-iterations message is never written, every build turn that
\* returns and finds no completion marker is followed by another build
\* turn, and the run ends only on the marker found after a build turn or on
\* a turn that failed.
C18_ZeroIsUnbounded ==
    [][ maxIterations = 0 =>
          /\ \A n \in 0..MaxTurns : ~Emitted(stdoutPipe', ReachedLine(n))
          /\ (IsBuildReturn /\ ~Marked) => /\ pc' = "buildTurn"
                                           /\ Builds' = Builds + 1
          /\ (pc # "exited" /\ pc' = "exited") =>
                \/ IsBuildReturn /\ Marked /\ StopsDone
                \/ TurnFails /\ exitCode' = "1" ]_vars

\* an unbounded run in its last build turn the model follows, past every
\* budget tried
C18_Witness ==
    /\ pc = "buildTurn"
    /\ maxIterations = 0
    /\ Builds = MaxTurns
    /\ iter = MaxTurns - 1
    /\ Builds > MaxBudget

\* C19: a run of the loop runner makes exactly one plan turn, its first
\* turn, given no conversation handle; every later turn is a build turn; at
\* most one turn is in flight, and while a build turn is in flight every
\* earlier turn has returned and its result is written (plan_out.log once,
\* build_out.log once per earlier build turn).
C19_TurnsInSequence ==
    /\ pc # "idle" => turns # <<>>
    /\ \A i \in DOMAIN turns :
          IF i = 1
          THEN turns[i].kind = "plan" /\ turns[i].threadId = NoHandle
          ELSE turns[i].kind = "build"
    /\ inFlight <= 1
    /\ pc = "planTurn" => inFlight = 1 /\ Len(turns) = 1 /\ planOutWrites = 0
    /\ pc = "buildTurn" => /\ inFlight = 1
                           /\ planOutWrites = 1
                           /\ buildOutWrites = Len(turns) - 2
    /\ pc = "exited" => inFlight = 0

\* a run in a state directory that held a handle: the plan turn got none,
\* the build turns got the one on file
C19_Witness ==
    /\ pc = "buildTurn"
    /\ Len(turns) = 3
    /\ turns[1].threadId = NoHandle
    /\ turns[2].threadId = StaleHandle
    /\ buildOutWrites = 1

\* a line of the log that is tagged as stderr and carries the error text
ErrorLogged ==
    \E n \in DOMAIN logBuffer :
        /\ Tagged(logBuffer[n])
        /\ \E x \in DOMAIN logBuffer[n] : logBuffer[n][x] = ErrorText[1]

\* C20: a turn that fails is the last turn of the run: the loop runner
\* writes the error text to stderr and exits with code 1 without starting
\* another turn; once the supervisor has processed the exit the session is
\* failed, in memory and in the registry, and once the stderr pipe is
\* drained the error text is in the log as a stderr-tagged line.
C20_TurnFailureEndsRun ==
    [][ /\ TurnFails => /\ pc' = "exited"
                        /\ exitCode' = "1"
                        /\ turns' = turns
                        /\ stderrPipe' = stderrPipe \o ErrorText
        /\ pc = "exited" => (turns' = turns /\ pc' = "exited")
        /\ (pc' = "exited" /\ exitCode' = "1" /\ child' = NoChild) =>
              /\ currentSession'.status = "failed"
              /\ \E i \in DOMAIN Recs' : /\ Recs'[i].id = currentSession'.id
                                          /\ Recs'[i].status = "failed"
              /\ stderrPipe' = <<>> => ErrorLogged' ]_vars

\* the second build turn failed, the exit was processed and the error text
\* has come through the pipe
C20_Witness ==
    /\ pc = "exited"
    /\ exitCode = "1"
    /\ Len(turns) = 3
    /\ child = NoChild
    /\ currentSession.status = "failed"
    /\ stderrPipe = <<>>
    /\ ErrorLogged

IsMain == \E n \in 0..MaxBudget : main(n)

\* C21: a run launched in a state directory whose thread_id holds a handle
\* left by an earlier run resumes that conversation: its first turn is given
\* the handle on file.
C21_ResumesPersistedHandle ==
    [][ (IsMain /\ threadFile # NoThreadFile) =>
            turns'[1].threadId = threadFile ]_vars

\* C22: the loop runner ends with code 0 when it stops on the completion
\* marker or on its budget and with a code other than 0 only when a turn
\* failed; the supervisor records a run that ended with code 0, a run that
\* stopped at its budget included, as succeeded.
C22_PlannedExitIsZero ==
    [][ /\ (pc # "exited" /\ pc' = "exited") =>
              IF TurnFails
              THEN exitCode' # "0"
              ELSE /\ exitCode' = "0"
                   /\ \/ EndsWith(stdoutPipe', DoneLine)
                      \/ /\ EndsWith(stdoutPipe', ReachedLine(maxIterations))
                         /\ maxIterations > 0
                         /\ iter' = maxIterations
        /\ (ExitOfLoop /\ exitCode = "0") =>
              /\ currentSession'.status = "succeeded"
              /\ \E i \in DOMAIN Recs' : /\ Recs'[i].id = currentSession'.id
                                          /\ Recs'[i].status = "succeeded" ]_vars

\* a run with budget 2 that used it up is on record as succeeded
C22_Witness ==
    /\ pc = "exited"
    /\ maxIterations = 2
    /\ iter = 2
    /\ child = NoChild
    /\ currentSession.status = "succeeded"

\* a string in which every surrogate is half of a pair
RECURSIVE WellFormed(_)
WellFormed(units) ==
    IF units = <<>> THEN TRUE
    ELSE IF IsHigh(Head(units))
    THEN Len(units) > 1 /\ IsLow(units[2]) /\ WellFormed(Tail(Tail(units)))
    ELSE ~IsLow(Head(units)) /\ WellFormed(Tail(units))

BothDerived == derived[1] # NoDir /\ derived[2] # NoDir

\* C23 as stated: the state directory depends on the resolved workdir alone;
\* two starts, in whatever supervisor lifetimes, with the same resolved workdir
\* get the same stateDir, and two different resolved workdirs never share one.
C23_WorkdirAlone ==
    BothDerived =>
        /\ resolved[1] = resolved[2] => derived[1] = derived[2]
        /\ resolved[1] # resolved[2] => derived[1] # derived[2]

\* C23 as the code has it: under the same state base directory two starts with
\* the same resolved workdir get the same stateDir, and two different resolved
\* workdirs without unpaired surrogates never share a stateDir.
C23_WorkdirAndBase ==
    BothDerived =>
        /\ (resolved[1] = resolved[2] /\ envs[1] = envs[2]) => derived[1] = derived[2]
        /\ ( /\ resolved[1] # resolved[2]
             /\ WellFormed(resolved[1])
             /\ WellFormed(resolved[2]) ) => derived[1] # derived[2]

\* two lifetimes with the same base have derived the directories of two
\* different workdirs beyond ASCII
C23_Witness ==
    /\ BothDerived
    /\ envs[1] = envs[2]
    /\ resolved[1] = <<47, 8364>>
    /\ resolved[2] = <<47, 55296, 56320>>
    /\ derived[1] # derived[2]

Damaged(file) == file.kind \in {"corrupt", "nonlist"}
StartsOnDamaged ==
    /\ Damaged(sessionsFile)
    /\ ~AlreadyRunning
    /\ \E input \in WorkdirInputs : startSession(input, TRUE, "none")

\* C24: a registry document that is unparsable, or that parses to something
\* other than a list, counts as the empty registry: listing answers no
\* sessions, a start that finds it succeeds and leaves a registry of just its
\* record, and an exit that finds it leaves the supervisor up with the child
\* cleared and an empty registry.
C24_DamagedCountsAsEmpty ==
    [][ /\ Damaged(sessionsFile) => listSessions(sessionsFile) = ListFile(<<>>)
        /\ StartsOnDamaged =>
              /\ response' = "ok"
              /\ sessionsFile' = ListFile(<<currentSession'>>)
        /\ (Damaged(sessionsFile) /\ IsExit) =>
              /\ up'
              /\ child' = NoChild
              /\ sessionsFile' = ListFile(<<>>) ]_vars

\* C25: the registry lists records oldest first; a successful start appends
\* its record after all existing ones, and the update at exit replaces the
\* record with the session's id in place and leaves the number, the order and
\* the content of all other records as they were.
C25_AppendAndUpdateInPlace ==
    [][ /\ \A i, j \in DOMAIN Recs' : i < j => Recs'[i].startedAt < Recs'[j].startedAt
        /\ StartsRun => Recs' = Append(Recs, currentSession')
        /\ IsExit =>
              /\ Len(Recs') = Len(Recs)
              /\ \A i \in DOMAIN Recs :
                    Recs'[i] = IF Recs[i].id = currentSession.id
                               THEN currentSession'
                               ELSE Recs[i] ]_vars

\* two runs have been appended after the older record and have ended
\* differently
C25_Witness ==
    /\ Len(Recs) = 3
    /\ Recs[1] = OldRecord
    /\ Recs[2].status = "failed"
    /\ Recs[3].status = "succeeded"
    /\ child = NoChild

\* the data event that hands over the first k atoms of the stdout pipe
\* completes the delivery of a line of the active run
CompletesLine(k) ==
    /\ child # NoChild
    /\ currentSession # NoSession
    /\ k \in 2..Len(stdoutPipe)
    /\ stdoutPipe[k] = NL
    /\ DeliverStdout(k)

\* C26: while a run is active, once the stdout line announcing the handle h
\* has been handled the session record's threadId is h, the most recently
\* announced handle; stderr data never changes threadId.
C26_ThreadIdIsLastAnnounced ==
    [][ /\ \A k \in 1..(3 * MaxWrites) :
              CompletesLine(k) =>
                  currentSession'.threadId = <<"t", stdoutPipe[k - 1]>>
        /\ (currentSession # NoSession /\ \E k \in 1..(3 * MaxWrites) : DeliverStderr(k))
              => currentSession'.threadId = currentSession.threadId ]_vars

\* the template with every placeholder replaced by its text as it is
RECURSIVE Verbatim(_, _, _)
Verbatim(text, goalText, pathText) ==
    IF text = <<>> THEN <<>>
    ELSE (CASE Head(text) = GoalKey -> goalText
            [] Head(text) = PlanPathKey -> pathText
            [] OTHER -> <<Head(text)>>)
         \o Verbatim(Tail(text), goalText, pathText)

\* C27: the rendered prompt is the template with every goal placeholder
\* replaced by the goal text, character for character whatever it contains,
\* and every plan-path placeholder by the plan-file path; nothing else of the
\* template changes.
C27_RenderedVerbatim ==
    rendered # NoFile => rendered = Verbatim(template, goal, planPath)

Ids(cl) == {cl[i].id : i \in DOMAIN cl}
IsSubscribe == subscribe
IsUnsubscribe == \E id \in 0..MaxClients : unsubscribe(id)
\* the lines a step has published: the growth of the buffer, the whole buffer
\* when the step has reset it
Published ==
    IF IsPrefix(logBuffer, logBuffer')
    THEN SubSeq(logBuffer', Len(logBuffer) + 1, Len(logBuffer'))
    ELSE logBuffer'

\* C28: a publish appends each line once to the buffer and writes it once to
\* every subscriber connected at that moment; a subscriber that has
\* disconnected is not written to again, and its removal leaves what the
\* remaining subscribers have received and the buffer as they were.
C28_PublishFanout ==
    [][ /\ ChildStdout =>
              \E chunk \in Chunks("stdout", writes') :
                  logBuffer' = logBuffer \o SplitLines(chunk)
        /\ ~(IsSubscribe \/ IsUnsubscribe) =>
              /\ Len(clients') = Len(clients)
              /\ \A i \in DOMAIN clients :
                    /\ clients'[i].id = clients[i].id
                    /\ clients'[i].received =
                          clients[i].received \o Replay(Published)
        /\ \A id \in 0..MaxClients :
              unsubscribe(id) =>
                  /\ logBuffer' = logBuffer
                  /\ clients' = SelectSeq(clients, LAMBDA c : c.id # id)
                  /\ Len(clients') = Len(clients) - 1
        /\ \A id \in 0..conns : id \notin Ids(clients) => id \notin Ids(clients') ]_vars

\* the observer that connected first has left; the one that connected during
\* the run, after the three lines of the start, has received two more lines
C28_Witness ==
    /\ conns = 1
    /\ Ids(clients) = {1}
    /\ clients[1].replayed = 3
    /\ Len(clients[1].received) = 5
    /\ Len(logBuffer) = 5

StartsBuild == Len(turns') = Len(turns) + 1 /\ turns'[Len(turns')].kind = "build"
\* the handle thread_id holds: none when it is absent or has no content
HandleOnFile(file) ==
    IF file \in {NoThreadFile, EmptyThreadFile} THEN NoHandle
    ELSE IF file = PaddedStaleHandle THEN StaleHandle
    ELSE file

\* C29: a build turn is given the handle most recently persisted in
\* thread_id: the one the turn before it returned, else the one on file, and
\* none if the file is absent or empty; a returning turn overwrites thread_id
\* if and only if it returned a handle, and no step clears the file.
C29_BuildTurnHandle ==
    [][ /\ \A h \in Handles \cup {NoHandle} :
              (PlanReturns(h) \/ BuildReturns(h)) =>
                  /\ threadFile' = IF h # NoHandle THEN h ELSE threadFile
                  /\ StartsBuild =>
                        turns'[Len(turns')].threadId =
                            IF h # NoHandle THEN h ELSE HandleOnFile(threadFile)
        /\ StartsBuild => turns'[Len(turns')].threadId = HandleOnFile(threadFile')
        /\ ~(IsPlanReturn \/ IsBuildReturn) => threadFile' = threadFile
        /\ threadFile' \in {NoThreadFile, EmptyThreadFile} => threadFile' = threadFile ]_vars

\* the plan turn returned no handle, so the first build turn resumed the
\* handle an earlier run left on file; it returned a handle of its own, which
\* the second build turn was given
C29_Witness ==
    /\ Len(turns) = 3
    /\ turns[2].threadId = StaleHandle
    /\ turns[3].threadId = "1"
    /\ threadFile = "1"

\* a build turn started on a thread_id without content is given no handle
C29_WitnessEmpty ==
    /\ Len(turns) = 2
    /\ threadFile = EmptyThreadFile
    /\ turns[2].threadId = NoHandle

\* a start that got past the checks of the child and of the workdir
StartProceeds == IsStart /\ uuids' = uuids + 1
RunningRecordOf(id, recs) ==
    \E i \in DOMAIN recs : recs[i].id = id /\ recs[i].status = "running"
IsChildOutput == ChildStdout \/ ChildStderr

\* C30: a start resets the buffer, creates the record, appends it as running
\* and launches the child, in this order: a start that launched the child has
\* appended the record, one that appended it has created it, and one that
\* created it has reset the buffer; while a child is active the registry
\* holds a running record with the active session's id, and whenever a line
\* of a child is published the record of every session started so far with a
\* child has been appended.
C30_StartOrder ==
    [][ /\ StartProceeds =>
              /\ child' # NoChild => Recs' = Append(Recs, currentSession')
              /\ Recs' # Recs =>
                    /\ Recs' = Append(Recs, currentSession')
                    /\ currentSession'.status = "running"
              /\ currentSession'.id = uuids'
              /\ logBuffer' \in {<<>>, StartLines(currentSession'.workdir)}
        /\ child' # NoChild =>
              /\ currentSession'.id = child'
              /\ RunningRecordOf(child', Recs')
        /\ IsChildOutput =>
              /\ Len(Recs) >= spawned + 1
              /\ child # NoChild => RunningRecordOf(child, Recs) ]_vars

\* a child is active, its record is the last of the registry and running,
\* and a line of the child has been published after the lines of the start
C30_Witness ==
    /\ child # NoChild
    /\ Recs[Len(Recs)].id = child
    /\ Recs[Len(Recs)].status = "running"
    /\ writes > 0
    /\ Len(logBuffer) = 4

IsDelivery ==
    \/ \E k \in 1..(3 * MaxWrites) : DeliverStdout(k)
    \/ \E k \in 1..(3 * MaxWrites) : DeliverStderr(k)

\* C31: output of the first run's child that is delivered after the second
\* run was started is not appended to the log buffer and does not change
\* the session record of the second run.
C31_LateOutputKeptOut ==
    [][ (IsDelivery /\ spawned = 2) =>
            /\ logBuffer' = logBuffer
            /\ currentSession' = currentSession ]_vars

\* C32: the child reference is set exactly when the in-memory session record
\* exists and has status running, also after a start that failed part-way.
C32_ViewsAgree ==
    (child # NoChild) <=>
        (currentSession # NoSession /\ currentSession.status = "running")

\* C33: a start that fails, whatever the reason, leaves the registry, the log
\* buffer and the in-memory session record as they were, and no registry
\* record is running while there is no child.
C33_FailedStartChangesNothing ==
    [][ /\ (IsStart /\ response' # "ok") =>
              UNCHANGED <<sessionsFile, logBuffer, currentSession>>
        /\ child' = NoChild => RunningIn(Recs') = {} ]_vars

\* C34: a stop on an active run only sends the signal: the session record,
\* the registry, the buffer and the child reference stay as they are; until
\* the exit event is processed status() reports running and every start is
\* answered with AlreadyRunning; a stop after the first one of a run changes
\* nothing at all, so that it cannot change the final record.
C34_StopOnlyRequests ==
    [][ /\ (child # NoChild /\ stopSession) =>
              /\ signalled'
              /\ UNCHANGED <<currentSession, sessionsFile, logBuffer, clients, child>>
        /\ (child # NoChild /\ ~IsExit) => status'.running
        /\ (child # NoChild /\ IsStart) =>
              /\ response' = "AlreadyRunning"
              /\ UNCHANGED <<currentSession, sessionsFile, logBuffer, child>>
        /\ (child # NoChild /\ signalled) => ~ENABLED (stopSession /\ vars' # vars) ]_vars

\* a stop has been requested and the child has not exited yet: the record is
\* still running and the last start was answered with AlreadyRunning
C34_Witness ==
    /\ child # NoChild
    /\ signalled
    /\ currentSession.status = "running"
    /\ response = "AlreadyRunning"
    /\ RunningRecordOf(child, Recs)

\* the log lines a child's output may become: each line it wrote, whole, with
\* the tag when it was written on stderr
WholeChildLines ==
    {ChildLine("stdout", k) : k \in 1..MaxWrites}
        \cup {StderrLine(ChildLine("stderr", k)) : k \in 1..MaxWrites}
SupervisorLines ==
    {ExitLine(info) : info \in ExitInfos}
        \cup (IF currentSession = NoSession THEN {}
              ELSE {StartLines(currentSession.workdir)[n] : n \in 1..3})

\* C35: however the output of the child is cut into data events, each line
\* it wrote is published as one log line with its text, never split and
\* never merged, and an announcement cut in two still sets threadId to the
\* whole handle.
C35_LinesSurviveChunking ==
    /\ \A n \in DOMAIN logBuffer :
          logBuffer[n] \in WholeChildLines \cup SupervisorLines
    /\ \A ms \in {MarkSeq(logBuffer, Marks(st)) : st \in Streams} :
          \A a, b \in DOMAIN ms : ms[a] = ms[b] => a = b
    /\ currentSession # NoSession =>
          currentSession.threadId \in
              {<<>>} \cup {<<"t", Mark("stdout", k)>> : k \in 1..MaxWrites}

\* the threadId the announcement of the handle on file gives
PersistedThreadId ==
    IF threadFile = NoThreadFile THEN <<>> ELSE <<"t", threadFile>>

\* C36: the session record of a run has a threadId only after the loop
\* runner has written that handle to thread_id in this run, and when the exit
\* event is processed the record's threadId is the last handle persisted.
C36_ThreadIdIsPersistedHandle ==
    [][ /\ (currentSession' # NoSession /\ currentSession'.threadId # <<>>) =>
              currentSession'.threadId = PersistedThreadId'
        /\ ExitOfLoop => currentSession'.threadId = PersistedThreadId ]_vars

====
